---- MODULE Spec2Model ----
(***************************************************************************)
(* A model of app.py, the Streamlit front end of the resume matcher.       *)
(*                                                                         *)
(* One Streamlit session is modelled.  Every user interaction triggers a   *)
(* complete rerun of main(); each action below is one such script run,     *)
(* from initialize_session_state() to display_results().  The backend      *)
(* functions parse_resume, match_resume_to_job and analyze_resume_job_match*)
(* are not part of app.py: a call to one of them is an input of the run    *)
(* (it returns a value or raises).                                         *)
(***************************************************************************)
EXTENDS Integers, Sequences, FiniteSets, TLC

VARIABLES
    environ,            \* os.environ has a non-empty HUGGINGFACE_API_KEY
    session_state,      \* st.session_state: a function on the keys present
    resume_uploader,    \* value of the file_uploader widget (None or a file)
    job_desc_input,     \* value of the job description text_area widget
    analyses,           \* number of perform_analysis runs started so far
    out                 \* what the last script run called, said and rendered

vars == <<environ, session_state, resume_uploader, job_desc_input, analyses, out>>

(* Bound on the number of analysis runs of one session. *)
MaxAnalyses == 2

(***************************************************************************)
(* Values                                                                  *)
(***************************************************************************)
\* Python's None, for the text-valued keys, and for the object-valued keys.
None == "None"
NoneObj == [source |-> "None"]

\* The files a user may upload, and what parse_resume extracts from each.
Files == {"cv1.pdf", "cv2.docx", "scan.pdf", "corrupt.pdf"}
JobTexts == {"jd A", "jd B"}

Keys == {"resume_text", "job_description", "match_results",
         "extracted_data", "analysis_complete", "api_available"}

\* Python truthiness of an optional string: None and "" are falsy.
Truthy(v) == v # None /\ v # ""

(***************************************************************************)
(* Backend collaborators (backend/*.py)                                    *)
(***************************************************************************)
\* Text parse_resume extracts from a file that it can read.
FileText(f) ==
    CASE f = "cv1.pdf"  -> "resume 1"
      [] f = "cv2.docx" -> "resume 2"
      [] OTHER          -> ""

\* Structured fields parse_resume extracts; may be None.
FileData(f) ==
    IF f = "cv1.pdf" THEN [source |-> "parsed", file |-> f] ELSE NoneObj

\* Outcomes of the upload step for file f: saving the temp file fails,
\* parse_resume (or the unlink after it) raises, or parse_resume returns.
parse_resume(f) ==
    IF f = "corrupt.pdf" THEN {"save_failed", "raised"}
    ELSE {"save_failed", "raised", "returned"}

\* Outcomes of the local scorer: a basic MatchResult, or an exception.
match_resume_to_job == {"returned", "raised"}

\* Outcomes of the external analyzer: a validated MatchResult, or one of the
\* ExternalAnalysisError causes.
analyze_resume_job_match == {"returned", "Network", "Auth", "Timeout", "SchemaMismatch"}

\* The MatchResult returned by the local scorer in analysis run n.
BasicResult(n, ss) ==
    [source |-> "Local", run |-> n,
     resume_text |-> ss.resume_text, job_description |-> ss.job_description]

\* The MatchResult returned by the external analyzer, seeded with basic.
AdvancedResult(n, basic) ==
    [source |-> "External", run |-> n, seed |-> basic]

(***************************************************************************)
(* app.py                                                                  *)
(***************************************************************************)
defaults(env) ==
    [k \in Keys |->
        CASE k = "resume_text"       -> None
          [] k = "job_description"   -> None
          [] k = "match_results"     -> NoneObj
          [] k = "extracted_data"    -> NoneObj
          [] k = "analysis_complete" -> FALSE
          [] k = "api_available"     -> env]

\* Mutant: the availability flag is re-read from the environment on every run.
initialize_session_state_reread(ss, env) ==
    [k \in Keys |->
        IF k \in DOMAIN ss /\ k # "api_available" THEN ss[k] ELSE defaults(env)[k]]

initialize_session_state(ss, env) ==
    [k \in Keys |-> IF k \in DOMAIN ss THEN ss[k] ELSE defaults(env)[k]]

\* Mutant: only the resume text is required.
InputsPresent_resume_only(ss) ==
    Truthy(ss.resume_text)

\* The condition of perform_analysis and of main for showing the button.
InputsPresent(ss) ==
    Truthy(ss.resume_text) /\ Truthy(ss.job_description)

\* The resume column of display_upload_section.
UploadResume(ss, file, pOut) ==
    IF file = None THEN [ss |-> ss, messages |-> <<>>, calls |-> <<>>]
    ELSE IF pOut = "save_failed"
    THEN [ss |-> ss, messages |-> <<"Error saving uploaded file">>, calls |-> <<>>]
    ELSE IF pOut = "raised"
    THEN [ss |-> ss, messages |-> <<"Error parsing resume">>,
          calls |-> <<[fn |-> "parse_resume", file |-> file, outcome |-> pOut]>>]
    ELSE IF Truthy(FileText(file))
    THEN [ss |-> [ss EXCEPT !["resume_text"] = FileText(file),
                            !["extracted_data"] = FileData(file)],
          messages |-> <<"Resume parsed successfully!">>,
          calls |-> <<[fn |-> "parse_resume", file |-> file, outcome |-> pOut]>>]
    ELSE [ss |-> ss, messages |-> <<"Failed to extract text from resume">>,
          calls |-> <<[fn |-> "parse_resume", file |-> file, outcome |-> pOut]>>]

\* The job description column of display_upload_section.
EnterJobDescription(ss, text) ==
    IF Truthy(text) THEN [ss EXCEPT !["job_description"] = text] ELSE ss

display_upload_section(ss, file, text, pOut) ==
    LET u == UploadResume(ss, file, pOut)
    IN  [u EXCEPT !.ss = EnterJobDescription(u.ss, text)]

\* Mutant: the fallback keeps the seed but marks it as the external result.
ExternalFailed_merged(ss, basic, aOut) ==
    [ss |-> [ss EXCEPT !["match_results"] = [basic EXCEPT !.source = "External"]],
     messages |-> <<"Advanced analysis failed. Using basic matching.">>]

\* Mutant: the fallback forgets to store the basic result.
ExternalFailed_nostore(ss, basic, aOut) ==
    [ss |-> ss,
     messages |-> <<"Advanced analysis failed. Using basic matching.">>]

\* except Exception as api_error: warn and fall back to the basic result.
ExternalFailed(ss, basic, aOut) ==
    [ss |-> [ss EXCEPT !["match_results"] = basic],
     messages |-> <<"Advanced analysis failed. Using basic matching.">>]

\* Mutant: the success banner is shown although the basic result is stored.
ExternalSucceeded_basic(ss, advanced) ==
    [ss |-> [ss EXCEPT !["match_results"] = advanced.seed],
     messages |-> <<"Advanced analysis complete!">>]

\* The external analyzer returned: store its result.
ExternalSucceeded(ss, advanced) ==
    [ss |-> [ss EXCEPT !["match_results"] = advanced],
     messages |-> <<"Advanced analysis complete!">>]

\* Mutant: a result already in the session is kept.
BasicOnly_keep(ss, basic) ==
    [ss |-> IF ss.match_results = NoneObj
            THEN [ss EXCEPT !["match_results"] = basic] ELSE ss,
     messages |-> <<"Using basic matching.">>]

\* else branch of `if api_available`.
BasicOnly(ss, basic) ==
    [ss |-> [ss EXCEPT !["match_results"] = basic],
     messages |-> <<"Using basic matching.">>]

\* Mutant: the external analyzer is tried whatever the flag says.
ApiAvailable_always(ss) == TRUE

\* The test `if st.session_state.api_available`.
ApiAvailable(ss) == ss.api_available

\* Mutant: the flag is left as it was when the local scorer raises.
LocalFailed_keepflag(ss) ==
    [ss |-> ss, messages |-> <<"Error during analysis">>, calls |-> <<>>]

\* Outer except: report the error, no result.
LocalFailed(ss) ==
    [ss |-> [ss EXCEPT !["analysis_complete"] = FALSE],
     messages |-> <<"Error during analysis">>, calls |-> <<>>]

\* Mutant: an exception of the external analyzer reaches the outer handler.
Reconcile_propagate(ss, n, basic, aOut) ==
    LET call == [fn |-> "analyze_resume_job_match",
                 resume_text |-> ss.resume_text,
                 job_description |-> ss.job_description, seed |-> basic,
                 outcome |-> aOut,
                 result |-> IF aOut = "returned" THEN AdvancedResult(n, basic)
                            ELSE NoneObj]
    IN  IF ApiAvailable(ss)
        THEN IF aOut = "returned"
             THEN LET r == ExternalSucceeded(ss, AdvancedResult(n, basic))
                  IN  [ss |-> [r.ss EXCEPT !["analysis_complete"] = TRUE],
                       messages |-> r.messages, calls |-> <<call>>]
             ELSE [LocalFailed(ss) EXCEPT !.calls = <<call>>]
        ELSE LET r == BasicOnly(ss, basic)
             IN  [ss |-> [r.ss EXCEPT !["analysis_complete"] = TRUE],
                  messages |-> r.messages, calls |-> <<>>]

\* perform_analysis after the local scorer returned basic.
Reconcile(ss, n, basic, aOut) ==
    LET call == [fn |-> "analyze_resume_job_match",
                 resume_text |-> ss.resume_text,
                 job_description |-> ss.job_description, seed |-> basic,
                 outcome |-> aOut,
                 result |-> IF aOut = "returned" THEN AdvancedResult(n, basic)
                            ELSE NoneObj]
        r == IF ApiAvailable(ss)
             THEN IF aOut = "returned"
                  THEN ExternalSucceeded(ss, AdvancedResult(n, basic))
                  ELSE ExternalFailed(ss, basic, aOut)
             ELSE BasicOnly(ss, basic)
    IN  [ss |-> [r.ss EXCEPT !["analysis_complete"] = TRUE],
         messages |-> r.messages,
         calls |-> IF ApiAvailable(ss) THEN <<call>> ELSE <<>>]

perform_analysis(ss, n, mOut, aOut) ==
    LET call == [fn |-> "match_resume_to_job",
                 resume_text |-> ss.resume_text,
                 job_description |-> ss.job_description,
                 extracted_data |-> ss.extracted_data,
                 outcome |-> mOut,
                 result |-> IF mOut = "returned" THEN BasicResult(n, ss)
                            ELSE NoneObj]
    IN  IF InputsPresent(ss)
        THEN IF mOut = "raised"
             THEN [LocalFailed(ss) EXCEPT !.calls = <<call>>]
             ELSE LET r == Reconcile(ss, n, BasicResult(n, ss), aOut)
                  IN  [r EXCEPT !.calls = <<call>> \o r.calls]
        ELSE [ss |-> ss,
              messages |-> <<"Please upload a resume and enter a job description.">>,
              calls |-> <<>>]

\* display_results: what is rendered; reading a field of None raises.
display_results(ss, report) ==
    IF ~ss.analysis_complete THEN [display |-> "hidden", messages |-> <<>>]
    ELSE IF ss.match_results = NoneObj
    THEN [display |-> "crashed", messages |-> <<>>]
    ELSE [display |-> "shown",
          messages |-> IF report THEN <<"Download Report (CSV)">> ELSE <<>>]

\* One script run.  analyze and report say which button triggered the rerun.
main(ss0, env, file, text, analyze, report, n, pOut, mOut, aOut) ==
    LET s1 == initialize_session_state(ss0, env)
        u  == display_upload_section(s1, file, text, pOut)
        button == InputsPresent(u.ss)
        started == button /\ analyze
        a  == IF started THEN perform_analysis(u.ss, n, mOut, aOut)
              ELSE [ss |-> u.ss, messages |-> <<>>, calls |-> <<>>]
        d  == IF a.ss.analysis_complete THEN display_results(a.ss, report)
              ELSE [display |-> "hidden", messages |-> <<>>]
    IN  [ss |-> a.ss,
         analysis_started |-> started,
         status |-> a.messages,
         messages |-> u.messages \o a.messages \o d.messages,
         calls |-> u.calls \o a.calls,
         button |-> button,
         display |-> d.display]

(***************************************************************************)
(* The session                                                             *)
(***************************************************************************)
NoRun ==
    [analysis_started |-> FALSE, status |-> <<>>,
     messages |-> <<>>, calls |-> <<>>, button |-> FALSE, display |-> "hidden"]

Init ==
    /\ environ \in BOOLEAN
    /\ session_state = <<>>
    /\ resume_uploader = None
    /\ job_desc_input = ""
    /\ analyses = 0
    /\ out = NoRun

Started == DOMAIN session_state # {}

\* A script run with the given widget values and button.
Run(file, text, analyze, report) ==
    \E pOut \in (IF file = None THEN {"returned"} ELSE parse_resume(file)),
       mOut \in (IF analyze THEN match_resume_to_job ELSE {"returned"}),
       aOut \in (IF analyze THEN analyze_resume_job_match ELSE {"returned"}) :
        LET r == main(session_state, environ, file, text, analyze, report,
                      analyses + 1, pOut, mOut, aOut)
        IN  /\ session_state' = r.ss
            /\ resume_uploader' = file
            /\ job_desc_input' = text
            /\ analyses' = IF r.analysis_started THEN analyses + 1 ELSE analyses
            /\ out' = [analysis_started |-> r.analysis_started,
                       status |-> r.status,
                       messages |-> r.messages, calls |-> r.calls,
                       button |-> r.button, display |-> r.display]
            /\ UNCHANGED environ

\* The browser opens the page: first script run of the session.
PageLoad ==
    /\ ~Started
    /\ Run(resume_uploader, job_desc_input, FALSE, FALSE)

\* The user uploads (or replaces) a resume file.
Upload ==
    /\ Started
    /\ \E f \in Files : f # resume_uploader /\ Run(f, job_desc_input, FALSE, FALSE)

\* The user removes the uploaded file.
RemoveFile ==
    /\ Started
    /\ resume_uploader # None
    /\ Run(None, job_desc_input, FALSE, FALSE)

\* The user edits (or clears) the job description.
EditJobDescription ==
    /\ Started
    /\ \E t \in JobTexts \cup {""} : t # job_desc_input /\ Run(resume_uploader, t, FALSE, FALSE)

\* The user clicks "Analyze Match", which the previous run rendered.
ClickAnalyze ==
    /\ Started
    /\ out.button
    /\ analyses < MaxAnalyses
    /\ Run(resume_uploader, job_desc_input, TRUE, FALSE)

\* The user clicks "Generate Full Analysis Report".
ClickReport ==
    /\ Started
    /\ out.display = "shown"
    /\ Run(resume_uploader, job_desc_input, FALSE, TRUE)

\* Any other rerun (download click, browser refresh of widgets).
Rerun ==
    /\ Started
    /\ Run(resume_uploader, job_desc_input, FALSE, FALSE)

\* The credential in the process environment is set or removed.
SetCredential ==
    /\ environ' = ~environ
    /\ UNCHANGED <<session_state, resume_uploader, job_desc_input, analyses, out>>

Next ==
    \/ PageLoad
    \/ Upload
    \/ RemoveFile
    \/ EditJobDescription
    \/ ClickAnalyze
    \/ ClickReport
    \/ Rerun
    \/ SetCredential

Spec == Init /\ [][Next]_vars

(***************************************************************************)
(* Observations on the last script run                                     *)
(***************************************************************************)
CallsTo(fn) == {i \in 1..Len(out.calls) : out.calls[i].fn = fn}

LocalCalled == CallsTo("match_resume_to_job") # {}
ExternalCalled == CallsTo("analyze_resume_job_match") # {}

LocalCall == out.calls[CHOOSE i \in CallsTo("match_resume_to_job") : TRUE]
ExternalCall == out.calls[CHOOSE i \in CallsTo("analyze_resume_job_match") : TRUE]

LocalReturned == LocalCalled /\ LocalCall.outcome = "returned"
LocalRaised == LocalCalled /\ LocalCall.outcome = "raised"
ExternalReturned == ExternalCalled /\ ExternalCall.outcome = "returned"
ExternalRaised == ExternalCalled /\ ExternalCall.outcome # "returned"

Said(m) == \E i \in 1..Len(out.messages) : out.messages[i] = m

StatusMessages == {"Advanced analysis complete!",
                   "Advanced analysis failed. Using basic matching.",
                   "Using basic matching."}

\* The analysis run that produced result r (0 for None).
ResultRun(r) == IF r = NoneObj THEN 0 ELSE r.run

(***************************************************************************)
(* Claims                                                                  *)
(***************************************************************************)

\* C1: whenever the external analyzer is called and raises, the stored
\* match_results is exactly the basic result the local scorer returned in
\* that run, the external result is not used, and analysis_complete is True.
C1_FallbackIsBasic ==
    ExternalRaised =>
        /\ LocalReturned
        /\ session_state.match_results = LocalCall.result
        /\ session_state.match_results = ExternalCall.seed
        /\ session_state.match_results.source = "Local"
        /\ session_state.analysis_complete = TRUE

C1_Witness ==
    /\ ExternalRaised
    /\ ExternalCall.outcome = "Timeout"
    /\ session_state.match_results = LocalCall.result

\* C2: when api_available is False no script run calls the external analyzer,
\* and a run whose local scorer returned stores that basic result unchanged.
C2_NoCredentialNoExternal ==
    (Started /\ ~session_state.api_available) =>
        /\ ~ExternalCalled
        /\ LocalReturned =>
              /\ session_state.match_results = LocalCall.result
              /\ session_state.match_results.source = "Local"

C2_Witness ==
    /\ Started /\ ~session_state.api_available
    /\ environ
    /\ LocalReturned
    /\ session_state.match_results = LocalCall.result

\* C3 as claimed: every analysis run started with non-empty inputs ends with
\* a result stored and analysis_complete = True.
C3_Original ==
    out.analysis_started =>
        /\ session_state.analysis_complete = TRUE
        /\ session_state.match_results # NoneObj

\* C3 amended: every analysis run started with non-empty inputs in which the
\* local scorer returns ends with this run's result stored and
\* analysis_complete = True, whether the external analyzer returns, raises or
\* is unavailable; a run in which the local scorer raises ends with
\* analysis_complete = False.
C3_AlwaysResultUnlessLocalFails ==
    out.analysis_started =>
        /\ LocalCalled
        /\ Truthy(LocalCall.resume_text) /\ Truthy(LocalCall.job_description)
        /\ LocalReturned =>
              /\ session_state.analysis_complete = TRUE
              /\ session_state.match_results \in
                    {LocalCall.result} \cup
                    (IF ExternalReturned THEN {ExternalCall.result} ELSE {})
              /\ ResultRun(session_state.match_results) = analyses
        /\ LocalRaised => session_state.analysis_complete = FALSE

C3_Witness ==
    /\ out.analysis_started
    /\ LocalReturned
    /\ ExternalRaised
    /\ session_state.analysis_complete = TRUE
    /\ analyses = 2

\* C4: an analysis run that produces a result emits exactly one of the three
\* status messages, and the message tells which result was stored.
C4_StatusIdentifiesResult ==
    (out.analysis_started /\ LocalReturned) =>
        /\ Len(out.status) = 1
        /\ out.status[1] \in StatusMessages
        /\ out.status[1] = "Advanced analysis complete!" <=>
              /\ ExternalReturned
              /\ session_state.match_results = ExternalCall.result
        /\ out.status[1] = "Advanced analysis failed. Using basic matching." <=>
              /\ ExternalRaised
              /\ session_state.match_results = LocalCall.result
        /\ out.status[1] = "Using basic matching." <=>
              /\ ~ExternalCalled
              /\ ~session_state.api_available
              /\ session_state.match_results = LocalCall.result

C4_Witness ==
    /\ out.analysis_started
    /\ out.status = <<"Advanced analysis complete!">>
    /\ session_state.match_results.source = "External"

\* C5: a run whose local scorer raises assigns no result (match_results is
\* what it was before the run), does not call the external analyzer, reports
\* an error, and ends with analysis_complete = False and nothing displayed.
C5_LocalFailureFatal ==
    [][ LocalRaised' =>
          /\ session_state'.match_results = session_state.match_results
          /\ ~ExternalCalled'
          /\ out'.status = <<"Error during analysis">>
          /\ session_state'.analysis_complete = FALSE
          /\ out'.display = "hidden" ]_vars

C5_Witness ==
    /\ LocalRaised
    /\ session_state.match_results # NoneObj
    /\ session_state.api_available
    /\ ~session_state.analysis_complete

\* C6: the local scorer and the external analyzer are only ever called with
\* a resume text and a job description that are both non-empty.
C6_NonEmptyGuard ==
    \A i \in CallsTo("match_resume_to_job") \cup CallsTo("analyze_resume_job_match") :
        /\ Truthy(out.calls[i].resume_text)
        /\ Truthy(out.calls[i].job_description)

C6_Witness ==
    /\ ExternalCalled
    /\ LocalCalled
    /\ job_desc_input = ""
    /\ resume_uploader = None

\* C7: no analysis run is started in a script run in which the uploaded
\* resume is one whose extraction yields no usable text.
C7_NoAnalysisAfterFailedExtraction ==
    ~(out.analysis_started /\ Said("Failed to extract text from resume"))

\* C8 as claimed: after any Analyze invocation, match_results is the result
\* produced by that invocation.
C8_Original ==
    out.analysis_started => ResultRun(session_state.match_results) = analyses

\* C8 amended: an Analyze invocation in which the local scorer returns stores
\* the result of that invocation in place of any prior one; whenever
\* analysis_complete is True, match_results is the result of the latest
\* invocation (an invocation whose local scorer raises keeps the prior value
\* but leaves analysis_complete False).
C8_LatestResultWhenComplete ==
    /\ (out.analysis_started /\ LocalReturned) =>
          ResultRun(session_state.match_results) = analyses
    /\ (Started /\ session_state.analysis_complete) =>
          /\ analyses > 0
          /\ ResultRun(session_state.match_results) = analyses

C8_Witness ==
    /\ out.analysis_started /\ LocalReturned
    /\ analyses = 2
    /\ ResultRun(session_state.match_results) = 2

\* C9: api_available is set from the credential on the first script run and
\* never changes afterwards, whatever happens to the environment; and
\* initialize_session_state leaves a session whose keys exist as it is.
C9_AvailabilityReadOnce ==
    /\ [][ (~Started /\ Started') => session_state'.api_available = environ ]_vars
    /\ [][ Started => session_state'.api_available = session_state.api_available ]_vars
    /\ [](Started => \A env \in BOOLEAN :
                        initialize_session_state(session_state, env) = session_state)

C9_Witness ==
    /\ Started
    /\ session_state.api_available # environ
    /\ out.analysis_started

\* C10: analysis_complete = True implies match_results is not None, so
\* display_results never reads a field of a missing result.
C10_CompleteImpliesResult ==
    Started =>
        /\ session_state.analysis_complete => session_state.match_results # NoneObj
        /\ out.display # "crashed"

C10_Witness ==
    /\ Started
    /\ session_state.analysis_complete
    /\ ExternalRaised
    /\ out.display = "shown"

====
